---- MODULE Spec2Model ----
(***************************************************************************)
(* A model of cs2-yearstat: the CS2Player / MonthlyStat / WeaponStat /     *)
(* MapStat records (cs2_stats/models.py), the Steam profile sync           *)
(* CS2Player.update_from_steam, the web views player_search and            *)
(* player_profile (cs2_stats/views.py) and the chart helpers               *)
(* (cs2_stats/utils/chart_utils.py).                                       *)
(*                                                                         *)
(* views.py imports the player model under the name Player; models.py      *)
(* defines it as CS2Player.  The model reads both names as the one player  *)
(* model of models.py.                                                     *)
(*                                                                         *)
(* Numbers: a K/D ratio is kept in hundredths (1.75 is 175), a percentage  *)
(* and the hours in tenths (60.0 is 600).  Strings that the code strips    *)
(* or formats are sequences of characters.                                 *)
(***************************************************************************)
EXTENDS Integers, Naturals, Sequences, FiniteSets, TLC

VARIABLES
    players,      \* table CS2Player: a set of rows
    stats,        \* table MonthlyStat: a set of rows
    cache,        \* django.core.cache: key -> expiry time (seconds)
    now,          \* the clock, in seconds
    flag_set_at,  \* history: steam_id -> time of the last cache.set, -1 never
    sync,         \* the calls of update_from_steam: call slot -> frame
    http,         \* the response of the web request being answered
    instance,     \* a model instance whose derived properties are read
    derived       \* the derived properties read from instance

vars == <<players, stats, cache, now, flag_set_at, sync, http, instance, derived>>

----------------------------------------------------------------------------
(* Bounds of the model *)

\* counters of a drawn model instance range over -1..MaxCounter
MaxCounter == 8

\* the admin forms hold kills 0, 5, 10, ..., 5 * 2^MaxDoubling
MaxDoubling == 2

\* the clock stops after MaxTicks steps
MaxTicks == 2

----------------------------------------------------------------------------
(* Python arithmetic *)

\* a float result: exc is "" and value the scaled number, or exc names the
\* exception raised and value is 0
Float(v) == [exc |-> "", value |-> v]
Raised(e) == [exc |-> e, value |-> 0]

Abs(x) == IF x < 0 THEN -x ELSE x

\* round-half-even of num/den to an integer, den > 0.  This is what Python's
\* round(num / den * 10^k, k) gives whenever a tie num/den = n + 1/2 is a
\* binary fraction, which is the case for every denominator below 40.
RoundHalfEven(num, den) ==
    LET q == num \div den
        r == num % den
    IN  IF 2 * r < den THEN q
        ELSE IF 2 * r > den THEN q + 1
        ELSE IF q % 2 = 0 THEN q ELSE q + 1

\* round(a / b * scale, digits) with scale * 10^digits = unit: a / b raises
\* ZeroDivisionError when b = 0
RoundedQuotient(a, b, unit) ==
    IF b = 0 THEN Raised("ZeroDivisionError")
    ELSE IF b > 0 THEN Float(RoundHalfEven(unit * a, b))
    ELSE Float(RoundHalfEven(-(unit * a), -b))

----------------------------------------------------------------------------
(* Derived properties of the records (models.py) *)

MonthlyStat_kd_ratio_GuardGE(s) ==
    IF s.deaths >= 0 THEN RoundedQuotient(s.kills, s.deaths, 100) ELSE Float(0)

MonthlyStat_kd_ratio(s) ==
    IF s.deaths > 0 THEN RoundedQuotient(s.kills, s.deaths, 100) ELSE Float(0)

MonthlyStat_win_rate(s) ==
    IF s.matches_played > 0 THEN RoundedQuotient(s.wins, s.matches_played, 1000)
    ELSE Float(0)

MonthlyStat_headshot_percent(s) ==
    IF s.kills > 0 THEN RoundedQuotient(s.headshots, s.kills, 1000) ELSE Float(0)

WeaponStat_headshot_percent(s) ==
    IF s.kills > 0 THEN RoundedQuotient(s.headshots, s.kills, 1000) ELSE Float(0)

WeaponStat_accuracy(s) ==
    IF s.shots_fired > 0 THEN RoundedQuotient(s.hits, s.shots_fired, 1000)
    ELSE Float(0)

MapStat_win_rate(s) ==
    IF s.matches_played > 0 THEN RoundedQuotient(s.wins, s.matches_played, 1000)
    ELSE Float(0)

MapStat_kd_ratio(s) ==
    IF s.deaths > 0 THEN RoundedQuotient(s.kills, s.deaths, 100) ELSE Float(0)

----------------------------------------------------------------------------
(* Reading the derived properties of one instance (admin list_display) *)

Counters == -1 .. MaxCounter

NoResponse == [view |-> "none"]

NoInstance == [model |-> "none"]
NoDerived == [model |-> "none"]

MonthlyStatInstances ==
    { [model |-> "MonthlyStat", kills |-> k, deaths |-> d, headshots |-> h,
       matches_played |-> m, wins |-> w] :
         k \in Counters, d \in Counters, h \in Counters,
         m \in Counters, w \in Counters }

WeaponStatInstances ==
    { [model |-> "WeaponStat", kills |-> k, headshots |-> h,
       shots_fired |-> s, hits |-> t] :
         k \in Counters, h \in Counters, s \in Counters, t \in Counters }

MapStatInstances ==
    { [model |-> "MapStat", matches_played |-> m, wins |-> w,
       kills |-> k, deaths |-> d] :
         m \in Counters, w \in Counters, k \in Counters, d \in Counters }

\* an instance as the admin loads it from its table
LoadInstance ==
    /\ instance = NoInstance
    /\ instance' \in MonthlyStatInstances \cup WeaponStatInstances \cup MapStatInstances
    /\ derived' = NoDerived
    /\ UNCHANGED <<players, stats, cache, now, flag_set_at, sync, http>>

ReadDerived ==
    /\ instance # NoInstance
    /\ derived.model = "none"
    /\ derived' =
         CASE instance.model = "MonthlyStat" ->
                [model |-> "MonthlyStat",
                 kd_ratio |-> MonthlyStat_kd_ratio(instance),
                 win_rate |-> MonthlyStat_win_rate(instance),
                 headshot_percent |-> MonthlyStat_headshot_percent(instance)]
           [] instance.model = "WeaponStat" ->
                [model |-> "WeaponStat",
                 headshot_percent |-> WeaponStat_headshot_percent(instance),
                 accuracy |-> WeaponStat_accuracy(instance)]
           [] instance.model = "MapStat" ->
                [model |-> "MapStat",
                 win_rate |-> MapStat_win_rate(instance),
                 kd_ratio |-> MapStat_kd_ratio(instance)]
    /\ UNCHANGED <<players, stats, cache, now, flag_set_at, sync, http, instance>>

ReleaseInstance ==
    /\ derived.model # "none"
    /\ instance' = NoInstance
    /\ derived' = NoDerived
    /\ UNCHANGED <<players, stats, cache, now, flag_set_at, sync, http>>

----------------------------------------------------------------------------
(* Identity strings and the tables *)

\* request.POST.get('steam_id', '') as the client sends it; <<>> is the
\* empty string, also what a form without the field gives
Whitespace == {" "}
RawInputs == { <<>>, <<" ">>, <<"7">>, <<" ", "7">>, <<"7", " ">>, <<"8">> }

RECURSIVE lstrip(_)
lstrip(s) == IF s # <<>> /\ Head(s) \in Whitespace THEN lstrip(Tail(s)) ELSE s

RECURSIVE rstrip(_)
rstrip(s) ==
    IF s # <<>> /\ s[Len(s)] \in Whitespace
    THEN rstrip(SubSeq(s, 1, Len(s) - 1)) ELSE s

\* str.strip()
strip(s) == rstrip(lstrip(s))

\* a CS2Player row as Player.objects.create(steam_id=...) stores it: every
\* other field at its default
NewPlayer(steam_id) ==
    [steam_id |-> steam_id, steam_nickname |-> "", steam_avatar |-> "",
     steam_profile_url |-> "", country_code |-> "", cs2_hours |-> 0,
     last_steam_update |-> -1]

\* Player.objects.filter(steam_id=steam_id)
PlayersWith(steam_id) == { p \in players : p.steam_id = steam_id }

\* the integer counters of MonthlyStat (every IntegerField but year, month)
CounterFields ==
    {"matches_played", "kills", "deaths", "assists", "headshots", "wins",
     "mvps", "utility_damage", "clutches_won", "plants", "defuses"}

\* the field defaults of MonthlyStat
DefaultCounters == [f \in CounterFields |-> 0]

\* the (year, month) pairs of the model
Periods == { <<2024, 12>>, <<2025, 1>>, <<2025, 2>> }

\* the values an admin form is filled with
KillVals == {0} \cup { 5 * 2^i : i \in 0 .. MaxDoubling }
DeathVals == {0, 5, 10}

StatForms ==
    { [DefaultCounters EXCEPT !.kills = k, !.deaths = d, !.headshots = k \div 5] :
         k \in KillVals, d \in DeathVals }
    \cup { [DefaultCounters EXCEPT !.matches_played = m, !.wins = w] :
             m \in {5, 10}, w \in {6} }
    \cup { [DefaultCounters EXCEPT ![f] = -1] : f \in {"kills", "plants"} }

MonthlyStatRow(steam_id, period, form) ==
    [f \in CounterFields \cup {"player", "year", "month"} |->
        IF f = "player" THEN steam_id
        ELSE IF f = "year" THEN period[1]
        ELSE IF f = "month" THEN period[2]
        ELSE form[f]]

\* unique_together = ['player', 'year', 'month'], among the rows `others`
UniqueTogether(row, others) ==
    \A o \in others :
        ~(o.player = row.player /\ o.year = row.year /\ o.month = row.month)

\* the validation of a MonthlyStat before it is stored: IntegerField takes
\* every integer, so only the unique constraint can reject
MonthlyStatValid(row, others) == UniqueTogether(row, others)

\* the admin adds a MonthlyStat for an existing player
AdminAddStat(p, period, form) ==
    LET row == MonthlyStatRow(p.steam_id, period, form)
    IN  /\ http = NoResponse
        /\ IF MonthlyStatValid(row, stats)
           THEN /\ stats' = stats \cup {row}
                /\ http' = [view |-> "admin_add", status |-> "saved"]
           ELSE /\ stats' = stats
                /\ http' = [view |-> "admin_add", status |-> "rejected"]
        /\ UNCHANGED <<players, cache, now, flag_set_at, sync, instance, derived>>

\* the admin changes the period and the counters of a stored MonthlyStat
AdminChangeStat(old, period, form) ==
    LET row == MonthlyStatRow(old.player, period, form)
    IN  /\ http = NoResponse
        /\ row # old
        /\ IF MonthlyStatValid(row, stats \ {old})
           THEN /\ stats' = (stats \ {old}) \cup {row}
                /\ http' = [view |-> "admin_change", status |-> "saved"]
           ELSE /\ stats' = stats
                /\ http' = [view |-> "admin_change", status |-> "rejected"]
        /\ UNCHANGED <<players, cache, now, flag_set_at, sync, instance, derived>>

----------------------------------------------------------------------------
(* Aggregates of CS2Player (models.py) *)

RECURSIVE SetSum(_, _)
SetSum(rows, f) ==
    IF rows = {} THEN 0
    ELSE LET r == CHOOSE x \in rows : TRUE IN r[f] + SetSum(rows \ {r}, f)

\* player.monthly_stats
monthly_stats(p) == { s \in stats : s.player = p.steam_id }

\* monthly_stats.aggregate(total=Sum(f))['total']: <<>> is None, the sum of
\* no row
AggregateSum(rows, f) == IF rows = {} THEN <<>> ELSE <<SetSum(rows, f)>>

\* x or 0
OrZero(x) == IF x = <<>> THEN 0 ELSE x[1]

total_matches(p) == OrZero(AggregateSum(monthly_stats(p), "matches_played"))

overall_kd(p) ==
    LET kills == OrZero(AggregateSum(monthly_stats(p), "kills"))
        deaths == OrZero(AggregateSum(monthly_stats(p), "deaths"))
    IN  IF deaths > 0 THEN RoundedQuotient(kills, deaths, 100) ELSE Float(0)

overall_win_rate(p) ==
    LET wins == OrZero(AggregateSum(monthly_stats(p), "wins"))
        total == total_matches(p)
    IN  IF total > 0 THEN RoundedQuotient(wins, total, 1000) ELSE Float(0)

overall_hs_percent(p) ==
    LET headshots == OrZero(AggregateSum(monthly_stats(p), "headshots"))
        kills == OrZero(AggregateSum(monthly_stats(p), "kills"))
    IN  IF kills > 0 THEN RoundedQuotient(headshots, kills, 1000) ELSE Float(0)

----------------------------------------------------------------------------
(* Charts and totals (views.py, utils/chart_utils.py) *)

Before(a, b) == a.year < b.year \/ (a.year = b.year /\ a.month < b.month)

\* .order_by('year', 'month'): the rows as a sequence, oldest first
RECURSIVE order_by_year_month(_)
order_by_year_month(rows) ==
    IF rows = {} THEN <<>>
    ELSE LET first == CHOOSE r \in rows : \A o \in rows \ {r} : Before(r, o)
         IN  <<first>> \o order_by_year_month(rows \ {first})

\* sum(stat.f for stat in monthly_stats)
RECURSIVE SeqSum(_, _)
SeqSum(seq, f) == IF seq = <<>> THEN 0 ELSE Head(seq)[f] + SeqSum(Tail(seq), f)

\* the mean of the monthly K/D ratios, which the code does not compute
RECURSIVE SeqSumKd(_)
SeqSumKd(seq) ==
    IF seq = <<>> THEN 0
    ELSE MonthlyStat_kd_ratio(Head(seq)).value + SeqSumKd(Tail(seq))

calculate_total_stats_MeanOfRatios(seq) ==
    [matches |-> SeqSum(seq, "matches_played"),
     kills |-> SeqSum(seq, "kills"),
     deaths |-> SeqSum(seq, "deaths"),
     wins |-> SeqSum(seq, "wins"),
     kd |-> IF SeqSum(seq, "deaths") > 0
            THEN RoundedQuotient(SeqSumKd(seq), Len(seq), 1) ELSE Float(0),
     win_rate |-> IF SeqSum(seq, "matches_played") > 0
                  THEN RoundedQuotient(SeqSum(seq, "wins"),
                                       SeqSum(seq, "matches_played"), 1000)
                  ELSE Float(0)]

calculate_total_stats_Unguarded(seq) ==
    [matches |-> SeqSum(seq, "matches_played"),
     kills |-> SeqSum(seq, "kills"),
     deaths |-> SeqSum(seq, "deaths"),
     wins |-> SeqSum(seq, "wins"),
     kd |-> RoundedQuotient(SeqSum(seq, "kills"), SeqSum(seq, "deaths"), 100),
     win_rate |-> RoundedQuotient(SeqSum(seq, "wins"),
                                  SeqSum(seq, "matches_played"), 1000)]

calculate_total_stats(seq) ==
    LET matches == SeqSum(seq, "matches_played")
        kills == SeqSum(seq, "kills")
        deaths == SeqSum(seq, "deaths")
        wins == SeqSum(seq, "wins")
    IN  [matches |-> matches, kills |-> kills, deaths |-> deaths, wins |-> wins,
         kd |-> IF deaths > 0 THEN RoundedQuotient(kills, deaths, 100)
                ELSE Float(0),
         win_rate |-> IF matches > 0 THEN RoundedQuotient(wins, matches, 1000)
                      ELSE Float(0)]

\* months = [f"{stat.year}/{stat.month}" for stat in monthly_stats]
month_labels(seq) == [i \in 1 .. Len(seq) |-> <<seq[i].year, "/", seq[i].month>>]

\* the series handed to the plotting library; the rendering is not modelled
create_kd_chart(seq) ==
    [title |-> "K/D Ratio Over Time", x |-> month_labels(seq),
     y |-> [i \in 1 .. Len(seq) |-> MonthlyStat_kd_ratio(seq[i])]]

create_winrate_chart(seq) ==
    [title |-> "Win Rate Over Time", x |-> month_labels(seq),
     y |-> [i \in 1 .. Len(seq) |-> MonthlyStat_win_rate(seq[i])]]

create_matches_chart(seq) ==
    [title |-> "Matches Played Per Month", x |-> month_labels(seq),
     y |-> [i \in 1 .. Len(seq) |-> Float(seq[i].matches_played)]]

prepare_all_charts(seq) ==
    IF seq = <<>> THEN <<>>
    ELSE <<create_kd_chart(seq), create_winrate_chart(seq), create_matches_chart(seq)>>

\* an exception raised while the context is built
ContextRaises(charts, total) ==
    \/ total.kd.exc # ""
    \/ total.win_rate.exc # ""
    \/ \E c \in 1 .. Len(charts) : \E i \in 1 .. Len(charts[c].y) :
          charts[c].y[i].exc # ""

player_profile_GetOrCreate(steam_id) ==
    /\ http = NoResponse
    /\ players' = IF PlayersWith(steam_id) = {} THEN players \cup {NewPlayer(steam_id)}
                  ELSE players
    /\ http' = [view |-> "player_profile", steam_id |-> steam_id, status |-> 200,
                player |-> NewPlayer(steam_id), monthly_stats |-> <<>>,
                charts |-> <<>>, total_stats |-> calculate_total_stats(<<>>)]
    /\ UNCHANGED <<stats, cache, now, flag_set_at, sync, instance, derived>>

\* views.player_profile: the context handed to the template, a 404 when no
\* player has this steam_id, a 500 when building the context raises
player_profile(steam_id) ==
    /\ http = NoResponse
    /\ IF PlayersWith(steam_id) = {}
       THEN http' = [view |-> "player_profile", steam_id |-> steam_id,
                     status |-> 404]
       ELSE LET player == CHOOSE p \in PlayersWith(steam_id) : TRUE
                seq == order_by_year_month(monthly_stats(player))
                charts == IF seq # <<>>
                          THEN <<create_kd_chart(seq), create_winrate_chart(seq),
                                 create_matches_chart(seq)>>
                          ELSE <<>>
                total == calculate_total_stats(seq)
            IN  IF ContextRaises(charts, total)
                THEN http' = [view |-> "player_profile", steam_id |-> steam_id,
                              status |-> 500]
                ELSE http' = [view |-> "player_profile", steam_id |-> steam_id,
                              status |-> 200, player |-> player,
                              monthly_stats |-> seq, charts |-> charts,
                              total_stats |-> total]
    /\ UNCHANGED <<players, stats, cache, now, flag_set_at, sync, instance, derived>>

\* the admin page of a player: its readonly aggregate fields
AdminViewPlayer(p) ==
    /\ http = NoResponse
    /\ http' = [view |-> "admin_player", player |-> p,
                rows |-> monthly_stats(p),
                total_matches |-> total_matches(p),
                overall_kd |-> overall_kd(p),
                overall_win_rate |-> overall_win_rate(p),
                overall_hs_percent |-> overall_hs_percent(p)]
    /\ UNCHANGED <<players, stats, cache, now, flag_set_at, sync, instance, derived>>

----------------------------------------------------------------------------
(* CS2Player.update_from_steam (models.py) *)

\* cache.set(cache_key, True, 300)
CacheTimeout == 300

\* requests.get answers with this status when the request succeeded
HttpOk == 200

\* the appid of CS2 in the owned-games list
Cs2AppId == 730

\* the clock advances in steps of half the cache timeout
TickSeconds == CacheTimeout \div 2

\* the identities a request can name
Ids == { strip(r) : r \in RawInputs } \ { <<>> }

\* slot 0 is the web request being handled, 1 and 2 are two other callers
\* of the sync, which may run at the same time
Slots == {0, 1, 2}

cache_key_Shared(steam_id) == <<"steam_profile_">>

\* cache_key = f"steam_profile_{self.steam_id}"
cache_key(steam_id) == <<"steam_profile_", steam_id>>

\* cache.get(key): the flag, or None once the entry is absent or expired
cache_get(key) == cache[key] > now

\* cache.set(key, True, timeout)
cache_set(key, timeout) == [cache EXCEPT ![key] = now + timeout]

\* dict.get(k, default)
Get(d, k, default) == IF k \in DOMAIN d THEN d[k] ELSE default

\* what requests.get(url, timeout=10) can give for GetPlayerSummaries: an
\* exception (timeout, connection error), or a response whose json() is a
\* document with response.players or raises
NotJson == [json |-> FALSE]
Summaries(ps) == [json |-> TRUE, players |-> ps]
SummaryResponses ==
    { [kind |-> "raise", status |-> 0, body |-> NotJson],
      [kind |-> "response", status |-> 500, body |-> NotJson],
      [kind |-> "response", status |-> HttpOk, body |-> NotJson],
      [kind |-> "response", status |-> HttpOk, body |-> Summaries(<<>>)],
      [kind |-> "response", status |-> HttpOk,
       body |-> Summaries(<<[personaname |-> "n1", avatarfull |-> "a1",
                             profileurl |-> "u1"]>>)] }

\* the same for GetOwnedGames: response.games, a list of games
OwnedGames(gs) == [json |-> TRUE, games |-> gs]
OwnedGamesResponses ==
    { [kind |-> "raise", status |-> 0, body |-> NotJson],
      [kind |-> "response", status |-> 500, body |-> NotJson],
      [kind |-> "response", status |-> HttpOk, body |-> NotJson],
      [kind |-> "response", status |-> HttpOk, body |-> OwnedGames(<<>>)],
      [kind |-> "response", status |-> HttpOk,
       body |-> OwnedGames(<<[appid |-> 570, playtime_forever |-> 600],
                             [appid |-> Cs2AppId, playtime_forever |-> 125]>>)],
      [kind |-> "response", status |-> HttpOk,
       body |-> OwnedGames(<<[name |-> "no appid"]>>)] }

\* for game in games: if game['appid'] == 730: ...; break
\* the hours set (in tenths), <<>> when no game is CS2, KeyError when a game
\* before it has no appid.  round(minutes / 60, 1) is RoundHalfEven for the
\* playtimes of OwnedGamesResponses, none of which is a tie.
RECURSIVE cs2_hours_of(_)
cs2_hours_of(games) ==
    IF games = <<>> THEN [exc |-> "", hours |-> <<>>]
    ELSE IF "appid" \notin DOMAIN Head(games) THEN [exc |-> "KeyError", hours |-> <<>>]
    ELSE IF Head(games).appid = Cs2AppId
         THEN [exc |-> "",
               hours |-> <<RoundHalfEven(10 * Get(Head(games), "playtime_forever", 0), 60)>>]
    ELSE cs2_hours_of(Tail(games))

\* history: a sync for this identity has set the flag less than
\* CacheTimeout seconds ago
InWindow(steam_id) ==
    flag_set_at[steam_id] >= 0 /\ now - flag_set_at[steam_id] < CacheTimeout

\* the frame of a call: the object self, and as history the fields it had
\* when the call began (before), the requests issued (req1, req2), whether
\* one was answered with another status than 200 (non200), InWindow when
\* the call began (in_window), and whether the call has run cache.set
\* (flagged)
IdleFrame ==
    [pc |-> "idle", self |-> NewPlayer(<<>>), before |-> NewPlayer(<<>>),
     result |-> "", req1 |-> 0, req2 |-> 0, non200 |-> FALSE,
     in_window |-> FALSE, flagged |-> FALSE]

\* the except clause: print, return False
Except(f) == [f EXCEPT !.pc = "done", !.result = "False"]

\* a variant that treats a sync in flight for the same identity as a fetch
\* already made
enter_update_from_steam_InFlight(p, args) ==
    LET f == [IdleFrame EXCEPT !.self = p, !.before = p,
                               !.in_window = InWindow(p.steam_id)]
        in_flight == \E o \in Slots :
                        /\ sync[o].pc \in {"request1", "request2"}
                        /\ sync[o].self.steam_id = p.steam_id
    IN  IF Len(args) # 1
        THEN [f EXCEPT !.pc = "done", !.result = "TypeError"]
        ELSE IF ~cache_get(cache_key(p.steam_id)) /\ ~in_flight
             THEN [f EXCEPT !.pc = "request1"]
             ELSE [f EXCEPT !.pc = "save"]

\* the call update_from_steam(*args) on the object p: Python binds the
\* arguments before the body (and its try) is entered, and raises TypeError
\* when api_key is missing; then lines 55-58
enter_update_from_steam(p, args) ==
    LET f == [IdleFrame EXCEPT !.self = p, !.before = p,
                               !.in_window = InWindow(p.steam_id)]
    IN  IF Len(args) # 1
        THEN [f EXCEPT !.pc = "done", !.result = "TypeError"]
        ELSE IF ~cache_get(cache_key(p.steam_id))
             THEN [f EXCEPT !.pc = "request1"]
             ELSE [f EXCEPT !.pc = "save"]

\* lines 60-70 on the answer r
after_summaries(f, r) ==
    LET g == [f EXCEPT !.req1 = @ + 1,
                       !.non200 = @ \/ (r.kind = "response" /\ r.status # HttpOk)]
    IN  IF r.kind = "raise" THEN Except(g)
        ELSE IF r.status # HttpOk THEN [g EXCEPT !.pc = "request2"]
        ELSE IF ~r.body.json THEN Except(g)
        ELSE IF r.body.players = <<>> THEN [g EXCEPT !.pc = "request2"]
        ELSE LET player == r.body.players[1]
             IN  [g EXCEPT !.pc = "request2",
                           !.self.steam_nickname = Get(player, "personaname", ""),
                           !.self.steam_avatar = Get(player, "avatarfull", ""),
                           !.self.steam_profile_url = Get(player, "profileurl", ""),
                           !.self.country_code = Get(player, "loccountrycode", "")]

\* lines 73-82 on the answer r; pc = "set_flag" when line 84 is reached
after_owned_games(f, r) ==
    LET g == [f EXCEPT !.req2 = @ + 1,
                       !.non200 = @ \/ (r.kind = "response" /\ r.status # HttpOk)]
    IN  IF r.kind = "raise" THEN Except(g)
        ELSE IF r.status # HttpOk THEN [g EXCEPT !.pc = "set_flag"]
        ELSE IF ~r.body.json THEN Except(g)
        ELSE LET found == cs2_hours_of(r.body.games)
             IN  IF found.exc # "" THEN Except(g)
                 ELSE IF found.hours = <<>> THEN [g EXCEPT !.pc = "set_flag"]
                 ELSE [g EXCEPT !.pc = "set_flag", !.self.cs2_hours = found.hours[1]]

\* another caller than the web views calls p.update_from_steam(api_key)
UpdateFromSteam(w, p) ==
    /\ w # 0
    /\ sync[w].pc \in {"idle", "done"}
    /\ sync' = [sync EXCEPT ![w] = enter_update_from_steam(p, <<"api_key">>)]
    /\ UNCHANGED <<players, stats, cache, now, flag_set_at, http, instance, derived>>

\* lines 60-70: the first request and what is done with its answer
Request1(w, r) ==
    /\ sync[w].pc = "request1"
    /\ sync' = [sync EXCEPT ![w] = after_summaries(sync[w], r)]
    /\ UNCHANGED <<players, stats, cache, now, flag_set_at, http, instance, derived>>

\* lines 73-84: the second request, its answer, and the flag
Request2(w, r) ==
    /\ sync[w].pc = "request2"
    /\ LET f == after_owned_games(sync[w], r)
           id == sync[w].self.steam_id
       IN  IF f.pc = "set_flag"
           THEN /\ cache' = cache_set(cache_key(id), CacheTimeout)
                /\ flag_set_at' = [flag_set_at EXCEPT ![id] = now]
                /\ sync' = [sync EXCEPT ![w] = [f EXCEPT !.pc = "save",
                                                         !.flagged = TRUE]]
           ELSE /\ sync' = [sync EXCEPT ![w] = f]
                /\ UNCHANGED <<cache, flag_set_at>>
    /\ UNCHANGED <<players, stats, now, http, instance, derived>>

\* lines 86-88: the timestamp, then save() writes every field of self to the
\* row of this player; the storage may refuse (saved = FALSE), and the
\* exception is caught
Save(w, saved) ==
    /\ sync[w].pc = "save"
    /\ LET f == [sync[w] EXCEPT !.self.last_steam_update = now]
       IN  IF saved
           THEN /\ players' = { p \in players : p.steam_id # f.self.steam_id }
                                 \cup {f.self}
                /\ sync' = [sync EXCEPT ![w] = [f EXCEPT !.pc = "done", !.result = "True"]]
           ELSE /\ players' = players
                /\ sync' = [sync EXCEPT ![w] = Except(f)]
    /\ UNCHANGED <<stats, cache, now, flag_set_at, http, instance, derived>>

Tick ==
    /\ now + TickSeconds <= MaxTicks * TickSeconds
    /\ now' = now + TickSeconds
    /\ UNCHANGED <<players, stats, cache, flag_set_at, sync, http, instance, derived>>

----------------------------------------------------------------------------
(* views.player_search *)

Redirect(view, to, steam_id) ==
    [view |-> view, status |-> 302, to |-> to, steam_id |-> steam_id]

\* Player.objects.create(steam_id=steam_id); steam_id is unique=True
objects_create(steam_id) ==
    IF PlayersWith(steam_id) = {} THEN players \cup {NewPlayer(steam_id)} ELSE players

\* a request to /search/ with this method and this steam_id field
player_search(method, raw) ==
    LET steam_id == strip(raw)
    IN  /\ http = NoResponse
        /\ IF method = "POST" /\ steam_id # <<>>
           THEN IF PlayersWith(steam_id) # {}
                THEN /\ http' = Redirect("player_search", "player_profile", steam_id)
                     /\ UNCHANGED <<players, sync>>
                ELSE LET f == enter_update_from_steam(NewPlayer(steam_id), <<>>)
                     IN  /\ players' = objects_create(steam_id)
                         /\ sync' = [sync EXCEPT ![0] = f]
                         /\ http' =
                              IF f.result = "TypeError"
                              THEN [view |-> "player_search", status |-> 500,
                                    to |-> "", steam_id |-> steam_id]
                              ELSE Redirect("player_search", "player_profile", steam_id)
           ELSE /\ http' = Redirect("player_search", "home", <<>>)
                /\ UNCHANGED <<players, sync>>
        /\ UNCHANGED <<stats, cache, now, flag_set_at, instance, derived>>

\* the response is sent and the request is over; requests are answered one
\* at a time
Deliver ==
    /\ http # NoResponse
    /\ http' = NoResponse
    /\ sync' = [sync EXCEPT ![0] = IdleFrame]
    /\ UNCHANGED <<players, stats, cache, now, flag_set_at, instance, derived>>

----------------------------------------------------------------------------
(* Initial state: empty tables, empty cache, nothing running *)

Init ==
    /\ players = {}
    /\ stats = {}
    /\ cache = [k \in { cache_key(s) : s \in Ids } |-> 0]
    /\ now = 0
    /\ flag_set_at = [s \in Ids |-> -1]
    /\ sync = [w \in Slots |-> IdleFrame]
    /\ http = NoResponse
    /\ instance = NoInstance
    /\ derived = NoDerived

\* the web views and one caller of the sync at a time
Next ==
    \/ \E method \in {"GET", "POST"}, raw \in RawInputs : player_search(method, raw)
    \/ \E steam_id \in Ids : player_profile(steam_id)
    \/ Deliver
    \/ \E p \in players : UpdateFromSteam(1, p)
    \/ \E r \in SummaryResponses : Request1(1, r)
    \/ \E r \in OwnedGamesResponses : Request2(1, r)
    \/ \E saved \in BOOLEAN : Save(1, saved)
    \/ Tick

Spec == Init /\ [][Next]_vars

\* two callers sync the one identity "7" at the same time; a request raises
\* or is answered with a document whose list is not empty
NextConcurrent ==
    \/ player_search("POST", <<"7">>)
    \/ Deliver
    \/ \E w \in {1, 2}, p \in players : UpdateFromSteam(w, p)
    \/ \E w \in {1, 2} :
          \E r \in { x \in SummaryResponses :
                        x.kind = "raise"
                        \/ (x.body.json /\ x.body.players # <<>>) } :
             Request1(w, r)
    \/ \E w \in {1, 2} :
          \E r \in { x \in OwnedGamesResponses :
                        x.kind = "raise"
                        \/ (x.body.json /\ x.body.games # <<>>) } :
             Request2(w, r)
    \/ \E w \in {1, 2}, saved \in BOOLEAN : Save(w, saved)
    \/ Tick

SpecConcurrent == Init /\ [][NextConcurrent]_vars

\* the monthly statistics of one player: the admin forms and the pages
StatsRawInputs == { <<" ", "7">> }

NextStats ==
    \/ \E raw \in StatsRawInputs : player_search("POST", raw)
    \/ \E p \in players, period \in Periods, form \in StatForms :
          AdminAddStat(p, period, form)
    \/ \E old \in stats, period \in Periods, form \in StatForms :
          AdminChangeStat(old, period, form)
    \/ \E steam_id \in Ids : player_profile(steam_id)
    \/ \E p \in players : AdminViewPlayer(p)
    \/ Deliver

SpecStats == Init /\ [][NextStats]_vars

\* the derived properties of single instances
NextRatio == LoadInstance \/ ReadDerived \/ ReleaseInstance

SpecRatio == Init /\ [][NextRatio]_vars

----------------------------------------------------------------------------
(* C5 *)

\* v is num/den rounded to the nearest integer, ties to even (den > 0)
IsRounded(v, num, den) ==
    /\ 2 * Abs(num - v * den) <= den
    /\ (2 * Abs(num - v * den) = den => v % 2 = 0)

Guarded(r, num, den, unit) ==
    /\ r.exc = ""
    /\ (den = 0 => r.value = 0)
    /\ (den > 0 /\ num >= 0 => IsRounded(r.value, unit * num, den))

\* C5: every derived ratio read from an instance with non-negative counters
\* is 0.0 when its denominator is 0 and the rounded quotient when it is
\* positive (K/D to 2 decimals, percentages to 1), and no instance at all,
\* whatever its counters, makes a derived property raise.
C5_RatiosGuarded ==
    /\ derived.model = "MonthlyStat" =>
         /\ Guarded(derived.kd_ratio, instance.kills, instance.deaths, 100)
         /\ Guarded(derived.win_rate, instance.wins, instance.matches_played, 1000)
         /\ Guarded(derived.headshot_percent, instance.headshots, instance.kills, 1000)
    /\ derived.model = "WeaponStat" =>
         /\ Guarded(derived.headshot_percent, instance.headshots, instance.kills, 1000)
         /\ Guarded(derived.accuracy, instance.hits, instance.shots_fired, 1000)
    /\ derived.model = "MapStat" =>
         /\ Guarded(derived.kd_ratio, instance.kills, instance.deaths, 100)
         /\ Guarded(derived.win_rate, instance.wins, instance.matches_played, 1000)

\* a monthly record with kills but no deaths and no matches read as K/D 0.0
\* and win rate 0.0, its headshot percent 3/8 = 37.5
C5_Witness ==
    /\ derived.model = "MonthlyStat"
    /\ instance.deaths = 0
    /\ instance.kills = 8
    /\ instance.headshots = 3
    /\ instance.matches_played = 0
    /\ instance.wins = 1
    /\ derived.kd_ratio = Float(0)
    /\ derived.win_rate = Float(0)
    /\ derived.headshot_percent = Float(375)

----------------------------------------------------------------------------
(* C1 *)

\* C1: a call of update_from_steam that failed returned False and left
\* every field of the player object as it was when the call began.
C1_FailureLeavesFieldsUnchanged ==
    \A w \in Slots :
        sync[w].pc = "done" /\ sync[w].result = "False"
            => sync[w].self = sync[w].before

----------------------------------------------------------------------------
(* C2 *)

\* C2: a call of update_from_steam one of whose requests was answered with a
\* status other than 200 returns False and the stored row of the player is
\* still what it was when the call began.
C2_Non200IsSyncFailure ==
    \A w \in Slots :
        sync[w].pc = "done" /\ sync[w].non200
            => /\ sync[w].result = "False"
               /\ sync[w].before \in players

----------------------------------------------------------------------------
(* C3 *)

\* C3: a call that begins while a flag set for its own identity is younger
\* than the 300 seconds of the timeout issues no request and goes straight
\* to the save; a call that begins when no sync has set the flag for its
\* identity (whatever the flags of other identities), or when that flag is
\* 300 seconds old or older, issues the first request.
C3_FlagSuppressesFetches ==
    \A w \in Slots :
        sync[w].pc # "idle" /\ sync[w].result # "TypeError"
            => /\ sync[w].in_window
                    => /\ sync[w].req1 = 0
                       /\ sync[w].req2 = 0
                       /\ sync[w].pc \in {"save", "done"}
               /\ ~sync[w].in_window
                    => sync[w].pc = "request1" \/ sync[w].req1 = 1

\* a sync of an identity, begun one clock step after an earlier sync of it
\* set the flag, has returned True without a request, while the other
\* identity has never been synced
C3_Witness ==
    /\ sync[1].pc = "done"
    /\ sync[1].result = "True"
    /\ sync[1].in_window
    /\ sync[1].req1 = 0
    /\ sync[1].req2 = 0
    /\ now = flag_set_at[sync[1].self.steam_id] + TickSeconds
    /\ \E other \in Ids : flag_set_at[other] = -1

----------------------------------------------------------------------------
(* C4 *)

\* the sum of field f over the first n records of seq
RECURSIVE SumTo(_, _, _)
SumTo(seq, f, n) == IF n = 0 THEN 0 ELSE SumTo(seq, f, n - 1) + seq[n][f]

\* r is the ratio unit * num / den rounded, or 0.0 when den is not positive
RatioOfSums(r, num, den, unit) ==
    /\ r.exc = ""
    /\ (den > 0 => IsRounded(r.value, unit * num, den))
    /\ (den <= 0 => r.value = 0)

\* the mean of the monthly K/D ratios of seq, in hundredths
MeanOfMonthlyKd(seq) == RoundHalfEven(SeqSumKd(seq), Len(seq))

\* C4: the totals of a profile page and the aggregate fields of a player are
\* the sums of the raw counters over all its monthly records, and the
\* aggregate K/D, win rate and headshot percent are the ratio of these sums,
\* rounded (0.0 when the denominator sum is 0), not the mean of the monthly
\* ratios.
C4_AggregatesFromSums ==
    /\ http.view = "player_profile" /\ http.status = 200 =>
         LET seq == http.monthly_stats
             n == Len(seq)
             t == http.total_stats
         IN  /\ t.kills = SumTo(seq, "kills", n)
             /\ t.deaths = SumTo(seq, "deaths", n)
             /\ t.matches = SumTo(seq, "matches_played", n)
             /\ t.wins = SumTo(seq, "wins", n)
             /\ RatioOfSums(t.kd, SumTo(seq, "kills", n), SumTo(seq, "deaths", n), 100)
             /\ RatioOfSums(t.win_rate, SumTo(seq, "wins", n),
                            SumTo(seq, "matches_played", n), 1000)
    /\ http.view = "admin_player" =>
         LET seq == order_by_year_month(http.rows)
             n == Len(seq)
         IN  /\ http.total_matches = SumTo(seq, "matches_played", n)
             /\ RatioOfSums(http.overall_kd, SumTo(seq, "kills", n),
                            SumTo(seq, "deaths", n), 100)
             /\ RatioOfSums(http.overall_win_rate, SumTo(seq, "wins", n),
                            SumTo(seq, "matches_played", n), 1000)
             /\ RatioOfSums(http.overall_hs_percent, SumTo(seq, "headshots", n),
                            SumTo(seq, "kills", n), 1000)

\* the profile page of the months (10,5), (20,10), (5,5): K/D 1.75, where
\* the mean of the monthly ratios 2.0, 2.0, 1.0 is 1.67
C4_Witness ==
    /\ http.view = "player_profile"
    /\ http.status = 200
    /\ Len(http.monthly_stats) = 3
    /\ [i \in 1 .. 3 |-> <<http.monthly_stats[i].kills, http.monthly_stats[i].deaths>>]
         = << <<10, 5>>, <<20, 10>>, <<5, 5>> >>
    /\ http.total_stats.kd = Float(175)
    /\ MeanOfMonthlyKd(http.monthly_stats) = 167

----------------------------------------------------------------------------
(* C6 *)

ZeroSummary ==
    [matches |-> 0, kills |-> 0, deaths |-> 0, wins |-> 0,
     kd |-> Float(0), win_rate |-> Float(0)]

\* C6: the profile page of a player without monthly records is rendered
\* (nothing raises) with an empty chart list, which is also what
\* prepare_all_charts gives, and a summary whose matches, kills, deaths,
\* wins, kd and win_rate are zero; on every page the chart list is
\* prepare_all_charts of its records.
C6_EmptyInputZeroSummary ==
    http.view = "player_profile" /\ http.status # 404 =>
        /\ http.status = 200 => http.charts = prepare_all_charts(http.monthly_stats)
        /\ { s \in stats : s.player = http.steam_id } = {} =>
             /\ http.status = 200
             /\ http.monthly_stats = <<>>
             /\ http.charts = <<>>
             /\ prepare_all_charts(http.monthly_stats) = <<>>
             /\ http.total_stats = ZeroSummary

C6_Witness ==
    /\ http.view = "player_profile"
    /\ http.status = 200
    /\ http.monthly_stats = <<>>
    /\ http.charts = <<>>
    /\ http.total_stats = ZeroSummary

----------------------------------------------------------------------------
(* C7 *)

\* C7: the answer to a search POST with a non-empty stripped identity is a
\* redirect to the profile page of that identity, and exactly one player has
\* it; any other search request is redirected home.
C7_SearchCreatesOrRedirects ==
    http.view = "player_search" =>
        /\ http.status = 302
        /\ IF http.steam_id # <<>>
           THEN /\ http.to = "player_profile"
                /\ Cardinality(PlayersWith(http.steam_id)) = 1
           ELSE http.to = "home"

----------------------------------------------------------------------------
(* C8 *)

\* C8: a profile request for an identity that no player has is answered
\* with 404 and nothing else: no player is created, no sync is entered, the
\* cache and the statistics stay as they are, and the answer carries no
\* computed statistics.
C8_ProfileNotFound ==
    [][ \A id \in Ids :
          ( /\ http = NoResponse
            /\ http'.view = "player_profile"
            /\ http'.steam_id = id
            /\ PlayersWith(id) = {} )
          => /\ http' = [view |-> "player_profile", steam_id |-> id, status |-> 404]
             /\ players' = players
             /\ stats' = stats
             /\ cache' = cache
             /\ flag_set_at' = flag_set_at
             /\ sync' = sync ]_vars

\* a 404 for one identity while a player of another identity is stored
C8_Witness ==
    /\ http.view = "player_profile"
    /\ http.status = 404
    /\ PlayersWith(http.steam_id) = {}
    /\ players # {}

----------------------------------------------------------------------------
(* C9 *)

\* C9: the table holds at most one MonthlyStat per (player, year, month) and
\* no negative counter.
C9_UniqueAndNonNegative ==
    /\ \A a \in stats : UniqueTogether(a, stats \ {a})
    /\ \A a \in stats : \A f \in CounterFields : a[f] >= 0

----------------------------------------------------------------------------
(* C10 *)

\* C10: every call of update_from_steam that is over returned True or False,
\* and no call issues either request more than once.
C10_SyncNeverRaises ==
    \A w \in Slots :
        /\ sync[w].req1 <= 1
        /\ sync[w].req2 <= 1
        /\ sync[w].pc = "done" => sync[w].result \in {"True", "False"}

----------------------------------------------------------------------------
(* C11 *)

\* the call in slot w has read the cache, found no flag, and has not yet
\* reached cache.set
Fetching(w) == sync[w].pc \in {"request1", "request2"}

\* the call in slot w returned True after issuing both requests, and had
\* found no flag when it started
FetchedAndSaved(w) ==
    /\ sync[w].pc = "done"
    /\ sync[w].result = "True"
    /\ ~sync[w].in_window
    /\ sync[w].req1 = 1
    /\ sync[w].req2 = 1

\* a call starts in slot w for the identity that the call in slot o is
\* fetching, while the flag of that identity is not live
StartsBesideFetch(w, o) ==
    /\ Fetching(o)
    /\ sync[w].pc \in {"idle", "done"}
    /\ sync'[w].pc \in {"request1", "save"}
    /\ sync'[w].self.steam_id = sync[o].self.steam_id
    /\ ~cache_get(cache_key(sync[o].self.steam_id))

\* two calls for one identity that both fetched and both returned True
\* leave the flag set and the row of the player written by one of them
BothSavedAndFlagged ==
    \A w \in Slots : \A o \in Slots \ {w} :
        ( /\ FetchedAndSaved(w)
          /\ FetchedAndSaved(o)
          /\ sync[w].self.steam_id = sync[o].self.steam_id )
        => /\ flag_set_at[sync[w].self.steam_id] >= 0
           /\ PlayersWith(sync[w].self.steam_id)
                  \subseteq {sync[w].self, sync[o].self}
           /\ PlayersWith(sync[w].self.steam_id) # {}

\* C11: syncs of one identity are not coordinated: a call that starts while
\* another call for the same identity is between its cache read and its
\* cache.set, the flag not being live, goes on to the requests itself; and
\* when two such calls have both returned True the flag is set and the
\* player is saved.
C11_ConcurrentSyncsBothFetch ==
    /\ []BothSavedAndFlagged
    /\ [][\A w \in Slots : \A o \in Slots \ {w} :
             StartsBesideFetch(w, o) => sync'[w].pc = "request1"]_vars

\* both callers fetched for the same identity inside one flag window, and
\* both returned True
C11_Witness ==
    /\ now < CacheTimeout
    /\ FetchedAndSaved(1)
    /\ FetchedAndSaved(2)
    /\ sync[1].self.steam_id = sync[2].self.steam_id
    /\ cache_get(cache_key(sync[1].self.steam_id))
    /\ sync[2].self \in players

----------------------------------------------------------------------------
(* C12 *)

\* C12: the flag of an identity is set only by a call that completed both
\* requests without raising, and a call that returned False has not set
\* the flag.
C12_FalseNeverSetsFlag ==
    \A w \in Slots :
        /\ sync[w].flagged => sync[w].req1 = 1 /\ sync[w].req2 = 1
        /\ (sync[w].pc = "done" /\ sync[w].result = "False")
               => ~sync[w].flagged

====
